---- MODULE Spec2Model ----
(***************************************************************************)
(* The greedy token-and-duration (TDT) transducer decode loop of           *)
(* tests/python_reference.py, transcribe_with_debug (lines 172-257).       *)
(*                                                                         *)
(* A decode pass owns a frame cursor t, a per-frame emission counter, the  *)
(* decoder state it feeds to the joint network, and the token / timestamp  *)
(* lists it accumulates.  The joint network (decoder_joint.run) is opaque: *)
(* each call returns a logits vector and a new decoder state.  Under Spec  *)
(* the results of a call are unconstrained; under StubSpec the network is  *)
(* a synthetic one that pins the argmax token, the argmax duration, or     *)
(* both; under PairSpec two passes run over the same encoder output        *)
(* against one pure scoring function, whose graph is discovered call by    *)
(* call and kept in memo.  FairSpec and FairStubSpec add the weak fairness *)
(* of sequential code, for the termination properties.                     *)
(***************************************************************************)
EXTENDS Integers, Sequences, FiniteSets, TLC

\* ------------------------------------------------------------------ bounds
MaxT == 2
MaxCap == 2
MaxVocab == 2
MaxDur == 3
StubMaxT == 4
PairMaxT == 2
\* Exploration cut-off on scoring calls per pass.  The loop itself never
\* comes near it (a pass makes at most encodings_len * max_tokens_per_step
\* calls); it only keeps the state space finite when the policy is altered.
MaxCalls == 16

\* Score levels of one logit, and the opaque decoder-state payloads.
Logit == {0, 1}
DecoderStates == {"zeros", "sA"}
NoFrame == [t |-> -1, token |-> -1, step |-> -1, is_blank |-> FALSE, state_updated |-> FALSE]
\* blank_idx = None: the vocabulary file holds no "<blk>" line.
NoBlank == -1

Passes == {1, 2}

VARIABLES
    encodings_len,        \* int(encoder_lens[0]): the valid length T
    max_tokens_per_step,  \* the per-frame emission cap
    vocab,                \* dict: token index -> symbol, as loaded
    vocab_size,           \* len(vocab)
    blank_idx,            \* index of "<blk>"
    num_durations,        \* len(dur_logits): width of the duration head
    stub,                 \* synthetic joint network: which argmax it pins
    pc,                   \* per pass: "idle", "loop", "done", "error"
    exception,            \* per pass: the exception that ended it, or "none"
    nonfinite_seen,       \* per pass: a call has returned NaN logits
    t,                    \* per pass: frame cursor
    emitted_tokens,       \* per pass: tokens emitted at the current frame
    prev_state,           \* per pass: decoder state fed to the next call
    new_state,            \* per pass: decoder state the last call returned
    tokens,               \* per pass: emitted token indices
    timestamps,           \* per pass: frame index of each emitted token
    frame_debug,          \* per pass: debug record of the last iteration
    logits,               \* per pass: the logits of the last call, where kept
    n_debug_frames,       \* per pass: len(debug_frames) = scoring calls made
    result,               \* per pass: the returned dict, once returned
    memo                  \* graph of the pure scoring function seen so far

config == <<encodings_len, max_tokens_per_step, vocab, vocab_size, blank_idx,
           num_durations, stub>>
passvars == <<pc, exception, nonfinite_seen, t, emitted_tokens, prev_state, new_state,
              tokens, timestamps, frame_debug, logits, n_debug_frames, result>>
vars == <<config, passvars, memo>>

\* ------------------------------------------------------- scoring interface
\* A logits vector: vocab_size token logits followed by the duration logits.
LogitVectors == [0 .. (vocab_size + num_durations - 1) -> Logit]

\* Altered: the last index that holds the maximum.
ArgMaxLast(f, lo, n) ==
    CHOOSE i \in 0 .. (n - 1) :
        /\ \A j \in 0 .. (n - 1) : f[lo + j] <= f[lo + i]
        /\ \A j \in (i + 1) .. (n - 1) : f[lo + j] < f[lo + i]

\* numpy argmax over f[lo .. lo+n-1], as an offset from lo: the first index
\* that holds the maximum.
ArgMax(f, lo, n) ==
    CHOOSE i \in 0 .. (n - 1) :
        /\ \A j \in 0 .. (n - 1) : f[lo + j] <= f[lo + i]
        /\ \A j \in 0 .. (i - 1) : f[lo + j] < f[lo + i]

\* token = int(token_logits.argmax())
TokenOf(outputs) == ArgMax(outputs, 0, vocab_size)

\* Altered: without a duration head the step is read off the token logits.
StepOfTokenLogits(outputs) ==
    IF num_durations > 0 THEN ArgMax(outputs, vocab_size, num_durations)
    ELSE ArgMax(outputs, 0, vocab_size)

\* step = int(dur_logits.argmax()) if len(dur_logits) > 0 else 0
StepOf(outputs) ==
    IF num_durations > 0 THEN ArgMax(outputs, vocab_size, num_durations) ELSE 0

\* Altered: the previous token falls back to blank on every new frame.
TargetsResetOnAdvance(p) ==
    IF emitted_tokens[p] > 0 THEN tokens[p][Len(tokens[p])] ELSE blank_idx

\* Altered: the previous token is read from one list shared by all passes.
TargetsShared(p) ==
    IF Len(tokens[1]) > 0 THEN tokens[1][Len(tokens[1])] ELSE blank_idx

\* "targets": [[tokens[-1] if tokens else blank_idx]]
Targets(p) ==
    IF Len(tokens[p]) > 0 THEN tokens[p][Len(tokens[p])] ELSE blank_idx

\* ------------------------------------------------------------ vocabulary
\* Symbols are sequences of characters; "U+2581" is the one character
\* LOWER ONE EIGHTH BLOCK.
BlankSymbol == <<"<", "b", "l", "k", ">">>

\* The vocab.txt token of a non-blank index: word-initial pieces carry the
\* U+2581 marker.
RawSymbol(i) == IF i % 2 = 0 THEN <<"U+2581", "a">> ELSE <<"b">>

\* token.replace("\u2581", " ")
ReplaceMarker(sym) == [k \in 1 .. Len(sym) |-> IF sym[k] = "U+2581" THEN " " ELSE sym[k]]

\* "".join(text_tokens)
RECURSIVE Join(_)
Join(strs) == IF Len(strs) = 0 THEN <<>> ELSE Head(strs) \o Join(Tail(strs))

\* str.strip(): leading and trailing whitespace removed.
RECURSIVE StripLeft(_)
StripLeft(str) ==
    IF Len(str) > 0 /\ Head(str) = " " THEN StripLeft(Tail(str)) ELSE str

RECURSIVE StripRight(_)
StripRight(str) ==
    IF Len(str) > 0 /\ str[Len(str)] = " "
    THEN StripRight(SubSeq(str, 1, Len(str) - 1)) ELSE str

\* Altered: only leading whitespace is removed.
StripLeading(str) == StripLeft(str)

Strip(str) == StripRight(StripLeft(str))

\* ------------------------------------------------------------- loop policy
\* Altered: the loop guard admits t = encodings_len.
LoopCondInclusive(p) == t[p] <= encodings_len

\* while t < encodings_len
LoopCond(p) == t[p] < encodings_len

\* Altered: the decoder state is never replaced.
StateAfterNever(token, prev, ns) == prev

\* Altered: the decoder state is replaced after every call, blank or not.
StateAfterAlways(token, prev, ns) == ns

\* if token != blank_idx: prev_state = (new_state1, new_state2)
StateAfter(token, prev, ns) == IF token # blank_idx THEN ns ELSE prev

\* if token != blank_idx: emitted_tokens += 1
EmittedAfter(token, em) == IF token # blank_idx THEN em + 1 ELSE em

\* Altered: the per-frame count survives a duration jump.
AdvancementKeepCount(tt, step, token, em) ==
    IF step > 0 THEN <<tt + step, em>>
    ELSE IF token = blank_idx \/ em >= max_tokens_per_step THEN <<tt + 1, 0>>
    ELSE <<tt, em>>

\* Altered: every iteration without a duration step moves on by one frame.
AdvancementEveryCall(tt, step, token, em) ==
    IF step > 0 THEN <<tt + step, 0>> ELSE <<tt + 1, 0>>

\* Altered: a blank with no duration step stays on the frame.
AdvancementBlankStays(tt, step, token, em) ==
    IF step > 0 THEN <<tt + step, 0>>
    ELSE IF token # blank_idx /\ em >= max_tokens_per_step THEN <<tt + 1, 0>>
    ELSE <<tt, em>>

\* Altered: no forced advance when the per-frame cap is reached.
AdvancementNoCap(tt, step, token, em) ==
    IF step > 0 THEN <<tt + step, 0>>
    ELSE IF token = blank_idx THEN <<tt + 1, 0>>
    ELSE <<tt, em>>

\* Altered: a predicted duration moves the cursor backwards.
AdvancementBackward(tt, step, token, em) ==
    IF step > 0 THEN <<tt - step, 0>>
    ELSE IF token = blank_idx \/ em >= max_tokens_per_step THEN <<tt + 1, 0>>
    ELSE <<tt, em>>

\* Altered: every advance is by one frame, the predicted duration ignored.
AdvancementUnitStep(tt, step, token, em) ==
    IF step > 0 THEN <<tt + 1, 0>>
    ELSE IF token = blank_idx \/ em >= max_tokens_per_step THEN <<tt + 1, 0>>
    ELSE <<tt, em>>

\* Frame advancement logic: <<t, emitted_tokens>> after it.
Advancement(tt, step, token, em) ==
    IF step > 0 THEN <<tt + step, 0>>
    ELSE IF token = blank_idx \/ em >= max_tokens_per_step THEN <<tt + 1, 0>>
    ELSE <<tt, em>>

\* What the loop reads off one logits vector: <<token, step>>.  The set of
\* decisions the joint network can induce, over every logits vector it may
\* return (a synthetic network returns only those with its pinned argmax).
Decisions ==
    {d \in {<<TokenOf(outputs), StepOf(outputs)>> : outputs \in LogitVectors} :
        /\ stub.pin_token => d[1] = stub.token
        /\ stub.pin_step => d[2] = stub.step}

\* NaN as a logit: numpy argmax ranks it above every number and returns the
\* first index that holds it.
NaN == Cardinality(Logit)

\* The decisions the loop reads off logits vectors that hold a NaN.
NonFiniteDecisions ==
    {<<TokenOf(outputs), StepOf(outputs)>> :
        outputs \in {o \in [0 .. (vocab_size + num_durations - 1) -> Logit \cup {NaN}] :
                        \E i \in DOMAIN o : o[i] = NaN}}

\* Altered: the token of every call is appended, blank included.
LoopBodyAppendBlank(p, token, step, ns) ==
    LET em  == EmittedAfter(token, emitted_tokens[p])
        adv == Advancement(t[p], step, token, em)
    IN  /\ new_state' = [new_state EXCEPT ![p] = ns]
        /\ prev_state' = [prev_state EXCEPT ![p] = StateAfter(token, prev_state[p], ns)]
        /\ tokens' = [tokens EXCEPT ![p] = Append(@, token)]
        /\ timestamps' = [timestamps EXCEPT ![p] = Append(@, t[p])]
        /\ frame_debug' = [frame_debug EXCEPT ![p] =
                         [t |-> t[p], token |-> token, step |-> step,
                          is_blank |-> (token = blank_idx),
                          state_updated |-> (token # blank_idx)]]
        /\ n_debug_frames' = [n_debug_frames EXCEPT ![p] = @ + 1]
        /\ t' = [t EXCEPT ![p] = adv[1]]
        /\ emitted_tokens' = [emitted_tokens EXCEPT ![p] = adv[2]]
        /\ UNCHANGED <<config, pc, exception, result>>

\* One execution of the loop body, given the argmax token and step of the
\* logits and the decoder state the joint network returned.
LoopBody(p, token, step, ns) ==
    LET em  == EmittedAfter(token, emitted_tokens[p])
        adv == Advancement(t[p], step, token, em)
    IN  /\ new_state' = [new_state EXCEPT ![p] = ns]
        /\ prev_state' = [prev_state EXCEPT ![p] = StateAfter(token, prev_state[p], ns)]
        /\ tokens' = [tokens EXCEPT ![p] =
                         IF token # blank_idx THEN Append(@, token) ELSE @]
        /\ timestamps' = [timestamps EXCEPT ![p] =
                         IF token # blank_idx THEN Append(@, t[p]) ELSE @]
        /\ frame_debug' = [frame_debug EXCEPT ![p] =
                         [t |-> t[p], token |-> token, step |-> step,
                          is_blank |-> (token = blank_idx),
                          state_updated |-> (token # blank_idx)]]
        /\ n_debug_frames' = [n_debug_frames EXCEPT ![p] = @ + 1]
        /\ t' = [t EXCEPT ![p] = adv[1]]
        /\ emitted_tokens' = [emitted_tokens EXCEPT ![p] = adv[2]]
        /\ UNCHANGED <<config, pc, exception, result>>

\* --------------------------------------------------------------- actions
\* One loop iteration against an unconstrained scoring function.
Iterate(p) ==
    /\ pc[p] = "loop"
    /\ LoopCond(p)
    /\ Targets(p) # NoBlank
    /\ n_debug_frames[p] < MaxCalls
    /\ \E d \in Decisions, ns \in DecoderStates :
           LoopBody(p, d[1], d[2], ns)
    /\ UNCHANGED <<memo, nonfinite_seen, logits>>

\* One loop iteration with the logits of the call kept: token and step are
\* read off them as lines 206-211 do.
IterateLogits(p) ==
    /\ pc[p] = "loop"
    /\ LoopCond(p)
    /\ Targets(p) # NoBlank
    /\ n_debug_frames[p] < MaxCalls
    /\ \E outputs \in LogitVectors, ns \in DecoderStates :
           /\ LoopBody(p, TokenOf(outputs), StepOf(outputs), ns)
           /\ logits' = [logits EXCEPT ![p] = outputs]
    /\ UNCHANGED <<memo, nonfinite_seen>>

\* One loop iteration against a pure scoring function: a repeated input
\* (frame, previous token, state) gets the result it got before.
IteratePure(p) ==
    /\ pc[p] = "loop"
    /\ LoopCond(p)
    /\ n_debug_frames[p] < MaxCalls
    /\ UNCHANGED <<nonfinite_seen, logits>>
    /\ LET key == <<t[p], Targets(p), prev_state[p]>>
       IN  IF key \in DOMAIN memo
           THEN /\ LoopBody(p, memo[key].token, memo[key].step, memo[key].new_state)
                /\ UNCHANGED memo
           ELSE \E d \in Decisions, ns \in DecoderStates :
                  /\ LoopBody(p, d[1], d[2], ns)
                  /\ memo' = (key :> [token |-> d[1], step |-> d[2], new_state |-> ns]) @@ memo

\* decoder_joint.run raises, as it may on any call and does on a target of
\* None: nothing in the function or in main catches it, so the pass ends
\* there and nothing is returned.
ScoreRaises(p) ==
    /\ pc[p] = "loop"
    /\ LoopCond(p)
    /\ pc' = [pc EXCEPT ![p] = "error"]
    /\ exception' = [exception EXCEPT ![p] = "RuntimeError"]
    /\ UNCHANGED <<config, nonfinite_seen, t, emitted_tokens, prev_state, new_state,
                   tokens, timestamps, frame_debug, logits, n_debug_frames, result, memo>>

\* decoder_joint.run returns logits that hold NaN.  Nothing inspects them:
\* numpy argmax ranks NaN above every number, and the loop body runs on the
\* token and step it picks.
ScoreNonFinite(p) ==
    /\ pc[p] = "loop"
    /\ LoopCond(p)
    /\ Targets(p) # NoBlank
    /\ n_debug_frames[p] < MaxCalls
    /\ \E d \in NonFiniteDecisions, ns \in DecoderStates :
           LoopBody(p, d[1], d[2], ns)
    /\ nonfinite_seen' = [nonfinite_seen EXCEPT ![p] = TRUE]
    /\ UNCHANGED <<memo, logits>>

\* text_tokens = [vocab[i] for i in tokens]
TextTokens(p) == [i \in 1 .. Len(tokens[p]) |-> vocab[tokens[p][i]]]

\* Every emitted token is a key of vocab.
AllKnown(p) == \A i \in 1 .. Len(tokens[p]) : tokens[p][i] \in DOMAIN vocab

\* Loop exit, decoding of the tokens to text, and the returned dict.
Finish(p) ==
    /\ pc[p] = "loop"
    /\ ~LoopCond(p)
    /\ AllKnown(p)
    /\ pc' = [pc EXCEPT ![p] = "done"]
    /\ result' = [result EXCEPT ![p] =
                     [text |-> Strip(Join(TextTokens(p))),
                      tokens |-> tokens[p],
                      token_strings |-> TextTokens(p),
                      timestamps |-> timestamps[p],
                      blank_idx |-> blank_idx, vocab_size |-> vocab_size,
                      encoder_frames |-> encodings_len]]
    /\ UNCHANGED <<config, exception, nonfinite_seen, t, emitted_tokens, prev_state,
                   new_state, tokens, timestamps, frame_debug, logits, n_debug_frames,
                   memo>>

\* Loop exit with an emitted token that is no key of vocab: vocab[i] raises
\* KeyError and nothing is returned.
AssembleFails(p) ==
    /\ pc[p] = "loop"
    /\ ~LoopCond(p)
    /\ ~AllKnown(p)
    /\ pc' = [pc EXCEPT ![p] = "error"]
    /\ exception' = [exception EXCEPT ![p] = "KeyError"]
    /\ UNCHANGED <<config, nonfinite_seen, t, emitted_tokens, prev_state, new_state,
                   tokens, timestamps, frame_debug, logits, n_debug_frames, result, memo>>

\* ------------------------------------------------------------------ init
NoResult == [text |-> <<>>, tokens |-> <<>>, token_strings |-> <<>>,
             timestamps |-> <<>>, blank_idx |-> -1,
             vocab_size |-> -1, encoder_frames |-> -1]

InitPass(active) ==
    /\ pc = [p \in Passes |-> IF p \in active THEN "loop" ELSE "idle"]
    /\ exception = [p \in Passes |-> "none"]
    /\ nonfinite_seen = [p \in Passes |-> FALSE]
    /\ logits = [p \in Passes |-> <<>>]
    /\ t = [p \in Passes |-> 0]
    /\ emitted_tokens = [p \in Passes |-> 0]
    /\ prev_state = [p \in Passes |-> "zeros"]
    /\ new_state = [p \in Passes |-> "zeros"]
    /\ tokens = [p \in Passes |-> <<>>]
    /\ timestamps = [p \in Passes |-> <<>>]
    /\ frame_debug = [p \in Passes |-> NoFrame]
    /\ n_debug_frames = [p \in Passes |-> 0]
    /\ result = [p \in Passes |-> NoResult]
    /\ memo = <<>>

\* The file has a "<blk>" line.
HasBlank(file) == \E i \in DOMAIN file : file[i] = BlankSymbol

\* The well-formed vocabulary files: indices 0 .. n-1, n <= maxVocab, line b
\* the "<blk>" line.
VocabFiles(maxVocab) ==
    {f \in {[i \in 0 .. (n - 1) |-> IF i = b THEN BlankSymbol ELSE RawSymbol(i)] :
                n \in 2 .. maxVocab, b \in 0 .. (maxVocab - 1)} : HasBlank(f)}

\* Load vocab: vocab, vocab_size and blank_idx as read from the file.
LoadVocab(file) ==
    /\ vocab = [i \in DOMAIN file |-> ReplaceMarker(file[i])]
    /\ vocab_size = Cardinality(DOMAIN file)
    /\ blank_idx = IF HasBlank(file)
                   THEN CHOOSE i \in DOMAIN file : file[i] = BlankSymbol
                   ELSE NoBlank

InitConfig(maxT, maxVocab) ==
    /\ encodings_len \in 0 .. maxT
    /\ max_tokens_per_step \in 1 .. MaxCap
    /\ \E file \in VocabFiles(maxVocab) :
           LoadVocab(file)
    /\ num_durations \in 0 .. MaxDur

\* The joint network is unconstrained.
NoStub == [pin_token |-> FALSE, token |-> 0, pin_step |-> FALSE, step |-> 0]

\* Synthetic joint networks: one argmax token on every call (any or one
\* duration), or one duration step >= 1 on every call (any token).
Stubs ==
    LET steps == 0 .. (IF num_durations > 0 THEN num_durations - 1 ELSE 0)
    IN  {[pin_token |-> TRUE, token |-> k, pin_step |-> FALSE, step |-> 0] :
             k \in 0 .. (vocab_size - 1)}
        \cup {[pin_token |-> TRUE, token |-> k, pin_step |-> TRUE, step |-> s] :
             k \in 0 .. (vocab_size - 1), s \in steps}
        \cup {[pin_token |-> FALSE, token |-> 0, pin_step |-> TRUE, step |-> s] :
             s \in steps \ {0}}

Init == InitConfig(MaxT, MaxVocab) /\ stub = NoStub /\ InitPass({1})

Next == Iterate(1) \/ Finish(1)

Spec == Init /\ [][Next]_vars

\* The loop is sequential code that runs until it returns: a step that can
\* be taken is taken.  Termination does not depend on which tokens there
\* are, so the fair specifications keep the smallest vocabulary.
FairInit == InitConfig(MaxT, 2) /\ stub = NoStub /\ InitPass({1})

FairSpec == FairInit /\ [][Next]_vars /\ WF_vars(Next)

StubInit == InitConfig(StubMaxT, MaxVocab) /\ stub \in Stubs /\ InitPass({1})

StubSpec == StubInit /\ [][Next]_vars

FairStubInit ==
    /\ InitConfig(StubMaxT, 2)
    /\ stub \in {s \in Stubs : s.pin_token /\ s.pin_step}
    /\ InitPass({1})

FairStubSpec == FairStubInit /\ [][Next]_vars /\ WF_vars(Next)

\* Two passes over one encoder output; the joint network has no duration
\* head or the widest one.
PairInit ==
    /\ InitConfig(PairMaxT, 2)
    /\ num_durations \in {0, MaxDur}
    /\ stub = NoStub
    /\ InitPass({1, 2})

PairNext == \E p \in Passes : IteratePure(p) \/ Finish(p)

PairSpec == PairInit /\ [][PairNext]_vars

\* A pass over a single frame, the logits of every call kept.
LogitInit ==
    /\ InitConfig(1, MaxVocab)
    /\ encodings_len = 1
    /\ stub = NoStub
    /\ InitPass({1})

LogitNext == IterateLogits(1) \/ Finish(1)

LogitSpec == LogitInit /\ [][LogitNext]_vars

\* A pass over any input the function accepts: besides the well-formed
\* vocabulary files, files with no "<blk>" line and files whose indices
\* leave a gap; the scoring function may raise or return NaN.
GapFiles == {[i \in {0, MaxVocab} |-> IF i = b THEN BlankSymbol ELSE RawSymbol(i)] :
                b \in {0, MaxVocab}}

NoBlankFiles == {[i \in 0 .. (n - 1) |-> RawSymbol(i)] : n \in 2 .. MaxVocab}

FaultInit ==
    /\ encodings_len \in 0 .. MaxT
    /\ max_tokens_per_step \in 1 .. MaxCap
    /\ \E file \in VocabFiles(MaxVocab) \cup GapFiles \cup NoBlankFiles : LoadVocab(file)
    /\ num_durations \in 0 .. MaxDur
    /\ stub = NoStub
    /\ InitPass({1})

FaultNext == Iterate(1) \/ ScoreRaises(1) \/ ScoreNonFinite(1) \/ Finish(1) \/ AssembleFails(1)

FaultSpec == FaultInit /\ [][FaultNext]_vars

\* A pass over at most one frame whose vocabulary file holds, besides
\* "<blk>", any of the pieces "U+2581", "U+2581 a" and "b"; the joint network
\* has no duration head.
Pieces == {<<"U+2581">>, <<"U+2581", "a">>, <<"b">>}

TextFiles ==
    {f \in [0 .. MaxVocab -> Pieces \cup {BlankSymbol}] :
        Cardinality({i \in DOMAIN f : f[i] = BlankSymbol}) = 1}

TextInit ==
    /\ encodings_len \in {0, 1}
    /\ max_tokens_per_step = MaxCap
    /\ \E file \in TextFiles : LoadVocab(file)
    /\ num_durations = 0
    /\ stub = NoStub
    /\ InitPass({1})

TextSpec == TextInit /\ [][Next]_vars

\* ---------------------------------------------------------------- claims
\* The pass that runs under Spec, FairSpec, StubSpec and FairStubSpec.
P1 == CHOOSE p \in Passes : \A q \in Passes : p <= q

\* Number of output entries stamped with frame f.
CountAt(ts, f) == Cardinality({i \in 1 .. Len(ts) : ts[i] = f})

\* The step of Next was a loop iteration of pass p.
Iterated(p) == n_debug_frames'[p] = n_debug_frames[p] + 1

\* C1: for every T >= 0 and maxPerFrame >= 1 and whatever the scoring
\* function returns, the pass terminates, and it never makes more than
\* T * (maxPerFrame + 1) scoring calls.
C1_TerminatesWithinCallBound ==
    /\ [](n_debug_frames[P1] <= encodings_len * (max_tokens_per_step + 1))
    /\ <>(pc[P1] = "done")

\* C1 witness: a finished pass over two or more frames that spent the whole
\* per-frame budget on every frame.
C1_Witness ==
    /\ pc[P1] = "done"
    /\ encodings_len >= 2
    /\ max_tokens_per_step >= 2
    /\ n_debug_frames[P1] = encodings_len * max_tokens_per_step

\* C2: two passes over the same encoder output, from the same initial state,
\* with the same configuration and the same pure scoring function, return
\* the same token sequence and the same timestamp sequence.
C2_Determinism ==
    (pc[1] = "done" /\ pc[2] = "done") =>
        /\ result[1].tokens = result[2].tokens
        /\ result[1].timestamps = result[2].timestamps

\* C2 witness: both passes finished, having emitted twice on one frame and
\* advanced to another.
C2_Witness ==
    /\ pc[1] = "done" /\ pc[2] = "done"
    /\ Len(result[1].tokens) >= 2
    /\ result[1].timestamps[1] = result[1].timestamps[2]
    /\ n_debug_frames[2] > Len(result[2].tokens)

\* C3: in every reachable state the timestamps accumulated so far are
\* non-decreasing.
C3_TimestampsMonotonic ==
    \A p \in Passes : \A i \in 1 .. (Len(timestamps[p]) - 1) :
        timestamps[p][i] <= timestamps[p][i + 1]

\* C3 witness: an output holding both a repeated timestamp and a later one.
C3_Witness ==
    /\ Len(timestamps[P1]) >= 3
    /\ timestamps[P1][1] = timestamps[P1][2]
    /\ timestamps[P1][2] < timestamps[P1][3]

\* C4: the decoder state fed to the scoring function changes only in an
\* iteration whose token is non-blank, where it becomes the state that call
\* returned; a blank iteration carries the state and the previous-token
\* input over unchanged.
C4_StateGating ==
    [][\A p \in Passes :
          /\ (Iterated(p) /\ ~frame_debug'[p].is_blank) =>
                 prev_state'[p] = new_state'[p]
          /\ (Iterated(p) /\ frame_debug'[p].is_blank) =>
                 /\ prev_state'[p] = prev_state[p]
                 /\ Targets(p)' = Targets(p)
          /\ ~Iterated(p) => prev_state'[p] = prev_state[p]]_vars

\* C4 witness: a blank iteration whose call returned a state other than the
\* one carried, after an earlier emission had replaced the initial state.
C4_Witness ==
    /\ n_debug_frames[P1] >= 2
    /\ frame_debug[P1].is_blank
    /\ prev_state[P1] = "sA"
    /\ new_state[P1] = "zeros"
    /\ Len(tokens[P1]) >= 1

\* The synthetic network returns blank on every call.
AlwaysBlank == stub.pin_token /\ stub.token = blank_idx

\* C5 as stated: with a scoring function that returns blank on every call
\* the pass ends in the initial state, with an empty output, after exactly T
\* calls.
C5_AlwaysBlankExactlyT ==
    (AlwaysBlank /\ pc[P1] = "done") =>
        /\ prev_state[P1] = "zeros"
        /\ result[P1].tokens = <<>> /\ result[P1].timestamps = <<>>
        /\ n_debug_frames[P1] = encodings_len

\* C5 amended: with a scoring function that returns blank on every call the
\* pass ends in the initial state, with an empty output, after at most T
\* calls; after exactly T calls when no call can return a duration step
\* above 1.
C5_AlwaysBlankAtMostT ==
    (AlwaysBlank /\ pc[P1] = "done") =>
        /\ prev_state[P1] = "zeros"
        /\ result[P1].tokens = <<>> /\ result[P1].timestamps = <<>>
        /\ n_debug_frames[P1] <= encodings_len
        /\ (num_durations <= 2 \/ (stub.pin_step /\ stub.step <= 1)) =>
               n_debug_frames[P1] = encodings_len

\* C5 witness: an always-blank pass over several frames that finished after
\* T calls, each of which returned a state other than the initial one.
C5_Witness ==
    /\ AlwaysBlank /\ pc[P1] = "done"
    /\ encodings_len >= 3
    /\ n_debug_frames[P1] = encodings_len
    /\ new_state[P1] = "sA"

\* The synthetic network returns one non-blank token with step 0 on every
\* call.
FixedTokenNoStep ==
    /\ stub.pin_token /\ stub.token # blank_idx
    /\ stub.pin_step /\ stub.step = 0

\* C6: with a scoring function that returns the same non-blank token with
\* step 0 on every call, the output fills frame by frame, maxPerFrame
\* consecutive entries per frame, and the pass terminates with exactly
\* maxPerFrame entries for every frame 0 .. T-1, T * maxPerFrame in all.
C6_LivelockGuard ==
    /\ [](FixedTokenNoStep =>
             /\ Len(tokens[P1]) = n_debug_frames[P1]
             /\ \A i \in 1 .. Len(timestamps[P1]) :
                    timestamps[P1][i] = (i - 1) \div max_tokens_per_step)
    /\ FixedTokenNoStep ~>
          /\ pc[P1] = "done"
          /\ \A f \in 0 .. (encodings_len - 1) :
                 CountAt(result[P1].timestamps, f) = max_tokens_per_step
          /\ Len(result[P1].tokens) = encodings_len * max_tokens_per_step

\* C6 witness: such a pass, finished, over several frames with a cap above 1.
C6_Witness ==
    /\ FixedTokenNoStep /\ pc[P1] = "done"
    /\ encodings_len >= 3 /\ max_tokens_per_step >= 2
    /\ Len(result[P1].tokens) = encodings_len * max_tokens_per_step

\* The synthetic network returns duration step s >= 1 on every call.
FixedStep == stub.pin_step /\ stub.step >= 1

\* C7: with a scoring function that returns duration step s >= 1 on every
\* call the cursor visits exactly the frames 0, s, 2s, ... below T, the pass
\* makes exactly ceil(T / s) calls, and at most one token is emitted per
\* visited frame.
C7_DurationJump ==
    FixedStep =>
        /\ t[P1] = stub.step * n_debug_frames[P1]
        /\ n_debug_frames[P1] >= 1 =>
               frame_debug[P1].t = stub.step * (n_debug_frames[P1] - 1)
        /\ Len(tokens[P1]) <= n_debug_frames[P1]
        /\ \A i \in 1 .. Len(timestamps[P1]) :
               /\ timestamps[P1][i] % stub.step = 0
               /\ i > 1 => timestamps[P1][i - 1] < timestamps[P1][i]
        /\ pc[P1] = "done" =>
               n_debug_frames[P1] = (encodings_len + stub.step - 1) \div stub.step

\* C7 witness: a finished pass with s = 2 whose last jump overshot T, one
\* token emitted on each visited frame.
C7_Witness ==
    /\ FixedStep /\ stub.step = 2 /\ pc[P1] = "done"
    /\ encodings_len = 3
    /\ t[P1] = 4
    /\ timestamps[P1] = <<0, 2>>

\* C8: with T = 0 the loop body never runs, the scoring function is never
\* called, and the pass returns an empty output.
C8_EmptyInput ==
    encodings_len = 0 =>
        /\ n_debug_frames[P1] = 0
        /\ tokens[P1] = <<>> /\ timestamps[P1] = <<>>
        /\ pc[P1] = "loop" => (~ENABLED Iterate(P1) /\ ENABLED Finish(P1))
        /\ pc[P1] = "done" =>
               (result[P1].tokens = <<>> /\ result[P1].timestamps = <<>>)

\* C8 witness: the pass over an empty encoder output has returned.
C8_Witness == encodings_len = 0 /\ pc[P1] = "done" /\ result[P1].encoder_frames = 0

\* C9: the frame cursor starts at 0, never decreases, and the pass ends
\* exactly when t >= T: it goes on while t < T and stops at the first
\* iteration boundary with t >= T.
C9_CursorMonotonic ==
    /\ \A p \in Passes : t[p] = 0
    /\ [][\A p \in Passes :
             /\ t'[p] >= t[p]
             /\ (pc[p] = "loop" /\ pc'[p] = "done") => t[p] >= encodings_len
             /\ (pc[p] = "loop" /\ Iterated(p)) => t[p] < encodings_len
             /\ (pc[p] = "loop" /\ t[p] >= encodings_len) => ~Iterated(p)]_vars

\* C9 witness: the cursor has advanced past a frame and stands below T, the
\* loop still running.
C9_Witness ==
    /\ pc[P1] = "loop"
    /\ t[P1] >= 1 /\ t[P1] < encodings_len
    /\ emitted_tokens[P1] >= 1

\* C10: every frame index read from the encoder output, and every timestamp
\* recorded, lies in [0, T), also after a duration jump that overshoots T.
C10_ReadsWithinValidLength ==
    \A p \in Passes :
        /\ n_debug_frames[p] >= 1 =>
               (0 <= frame_debug[p].t /\ frame_debug[p].t < encodings_len)
        /\ \A i \in 1 .. Len(timestamps[p]) :
               0 <= timestamps[p][i] /\ timestamps[p][i] < encodings_len
        /\ pc[p] = "loop" /\ ENABLED Iterate(p) => t[p] < encodings_len

\* C10 witness: a duration jump has taken the cursor beyond T, the frame it
\* started from having emitted a token.
C10_Witness ==
    /\ t[P1] > encodings_len
    /\ frame_debug[P1].step >= 2
    /\ ~frame_debug[P1].is_blank
    /\ timestamps[P1][Len(timestamps[P1])] = encodings_len - 1

\* C11: whenever an iteration advances the cursor, the per-frame counter is 0
\* at the start of the next iteration; the counter is non-zero at the start
\* of an iteration only if the previous iteration left the cursor where it
\* was (frame_debug.t is the cursor the previous iteration started from).
C11_CounterZeroAfterAdvance ==
    \A p \in Passes :
        /\ n_debug_frames[p] = 0 => emitted_tokens[p] = 0
        /\ (n_debug_frames[p] >= 1 /\ t[p] # frame_debug[p].t) => emitted_tokens[p] = 0
        /\ emitted_tokens[p] > 0 => (n_debug_frames[p] >= 1 /\ t[p] = frame_debug[p].t)

\* C11 witness: a frame that had emitted twice was left by a duration jump,
\* and the next iteration starts with the counter at 0.
C11_Witness ==
    /\ pc[P1] = "loop" /\ t[P1] < encodings_len
    /\ frame_debug[P1].step >= 1
    /\ ~frame_debug[P1].is_blank
    /\ CountAt(timestamps[P1], frame_debug[P1].t) >= 2
    /\ t[P1] = frame_debug[P1].t + frame_debug[P1].step
    /\ emitted_tokens[P1] = 0

\* The iteration of pass p just taken is the one on which the per-frame cap
\* was hit: a non-blank token with no duration step brought the counter to
\* max_tokens_per_step.
CapHit(p) ==
    /\ Iterated(p)
    /\ ~frame_debug'[p].is_blank
    /\ frame_debug'[p].step = 0
    /\ emitted_tokens[p] + 1 >= max_tokens_per_step

C13_ScoringFailureAborts ==
    \A p \in Passes :
        (exception[p] = "RuntimeError" \/ nonfinite_seen[p]) =>
            (pc[p] = "error" /\ result[p] = NoResult)

\* C14: a vocabulary with no blank index is rejected before the loop: no
\* scoring call is attempted, the pass never completes, and the only error
\* it ends in is InvalidInput.
C14_InvalidInputRejected ==
    \A p \in Passes :
        blank_idx = NoBlank =>
            /\ n_debug_frames[p] = 0
            /\ pc[p] # "done"
            /\ exception[p] \in {"none", "InvalidInput"}

\* C15: when result assembly meets a token that is no key of the vocabulary,
\* the pass still completes and returns one string for every token.
C15_UnknownTokenRecoverable ==
    \A p \in Passes :
        (pc[p] \in {"done", "error"} /\ exception[p] # "RuntimeError" /\ ~AllKnown(p)) =>
            /\ pc[p] = "done"
            /\ Len(result[p].token_strings) = Len(tokens[p])

\* The pass run alone against the scoring function recorded in memo: the
\* output it reaches from cursor tt, counter em, state st and the output
\* toks, ts so far.  A call memo holds no result for ends the run with
\* NoResult.
RECURSIVE SoloRun(_, _, _, _, _, _)
SoloRun(tt, em, st, toks, ts, fuel) ==
    IF ~(tt < encodings_len) THEN [tokens |-> toks, timestamps |-> ts]
    ELSE LET key == <<tt, IF Len(toks) > 0 THEN toks[Len(toks)] ELSE blank_idx, st>>
         IN  IF fuel = 0 \/ key \notin DOMAIN memo THEN [tokens |-> <<-1>>, timestamps |-> <<-1>>]
             ELSE LET r   == memo[key]
                      em2 == EmittedAfter(r.token, em)
                      adv == Advancement(tt, r.step, r.token, em2)
                  IN  SoloRun(adv[1], adv[2], StateAfter(r.token, st, r.new_state),
                              IF r.token # blank_idx THEN Append(toks, r.token) ELSE toks,
                              IF r.token # blank_idx THEN Append(ts, tt) ELSE ts,
                              fuel - 1)

\* C16: two passes, each with its own state, cursor, counter and output,
\* interleaved call by call in any order: each finished pass returns the
\* output of the pass run alone, whatever the other pass has done meanwhile.
C16_InterleavingIndependent ==
    \A p \in Passes :
        pc[p] = "done" =>
            LET solo == SoloRun(0, 0, "zeros", <<>>, <<>>, MaxCalls)
            IN  /\ result[p].tokens = solo.tokens
                /\ result[p].timestamps = solo.timestamps

\* C16 witness: one pass finished with two tokens on one frame while the
\* other, started but not finished, has made calls of its own in between.
C16_Witness ==
    \E p \in Passes, q \in Passes :
        /\ pc[p] = "done" /\ Len(result[p].tokens) >= 2
        /\ result[p].timestamps[1] = result[p].timestamps[2]
        /\ pc[q] = "loop" /\ n_debug_frames[q] >= 1
        /\ n_debug_frames[q] < n_debug_frames[p]

\* C17: a completed pass returns, with the output, the final decode state
\* and the frame cursor at which the loop exited.
C17_ReturnsStateAndCursor ==
    pc[P1] = "done" =>
        /\ result[P1].encoder_frames = t[P1]
        /\ \E k \in DOMAIN result[P1] : k \in {"state", "final_state", "prev_state"}

\* The iteration of pass p just taken returned a duration step above 0.
Jumped(p) == Iterated(p) /\ frame_debug'[p].step > 0

\* C18: on any iteration with step > 0 the cursor advances by exactly step
\* and the counter is reset to 0, whatever the token and the counter; a
\* non-blank token of such an iteration is appended with the timestamp of
\* the frame the iteration started on, and replaces the decode state.
C18_JumpAlwaysAdvances ==
    [][\A p \in Passes :
          Jumped(p) =>
              /\ t'[p] = t[p] + frame_debug'[p].step
              /\ emitted_tokens'[p] = 0
              /\ ~frame_debug'[p].is_blank =>
                    /\ tokens'[p] = Append(tokens[p], frame_debug'[p].token)
                    /\ timestamps'[p] = Append(timestamps[p], t[p])
                    /\ prev_state'[p] = new_state'[p]]_vars

\* C18 witness: a frame that already held an emission emitted again with a
\* step of two or more, and the cursor stands that many frames further with
\* the counter at 0.
C18_Witness ==
    /\ n_debug_frames[P1] >= 2
    /\ frame_debug[P1].step >= 2 /\ ~frame_debug[P1].is_blank
    /\ CountAt(timestamps[P1], frame_debug[P1].t) >= 2
    /\ timestamps[P1][Len(timestamps[P1])] = frame_debug[P1].t
    /\ t[P1] = frame_debug[P1].t + frame_debug[P1].step
    /\ emitted_tokens[P1] = 0
    /\ prev_state[P1] = "sA"

\* The iteration of pass p just taken emitted a non-blank token with step 0
\* and left the counter below the cap.
EmittedBelowCap(p) ==
    /\ Iterated(p)
    /\ ~frame_debug'[p].is_blank
    /\ frame_debug'[p].step = 0
    /\ emitted_tokens[p] + 1 < max_tokens_per_step

\* C19: an iteration with a non-blank token, step 0 and the counter, after
\* its increment, still below maxPerFrame leaves t unchanged and the counter
\* one greater; the next scoring call is made on the same frame, with the
\* token just emitted as previous token and with the new state.
C19_StayOnFrame ==
    [][\A p \in Passes :
          EmittedBelowCap(p) =>
              /\ t'[p] = t[p]
              /\ emitted_tokens'[p] = emitted_tokens[p] + 1
              /\ pc'[p] = "loop" /\ LoopCond(p)'
              /\ Targets(p)' = frame_debug'[p].token
              /\ prev_state'[p] = new_state'[p]]_vars

\* C19 witness: after an emission the loop stands on the frame it was on,
\* below the cap, about to call again with the emitted token and a state
\* that is not the initial one.
C19_Witness ==
    /\ pc[P1] = "loop" /\ t[P1] < encodings_len
    /\ n_debug_frames[P1] >= 1
    /\ ~frame_debug[P1].is_blank /\ frame_debug[P1].step = 0
    /\ frame_debug[P1].t = t[P1]
    /\ emitted_tokens[P1] >= 1 /\ emitted_tokens[P1] < max_tokens_per_step
    /\ Targets(P1) = frame_debug[P1].token
    /\ prev_state[P1] = "sA"

\* The iteration of pass p just taken returned the blank token.
BlankIteration(p) == Iterated(p) /\ frame_debug'[p].is_blank

\* C20 as stated: an iteration whose token is blank neither increments nor
\* resets the per-frame counter.
C20_BlankKeepsCounter ==
    [][\A p \in Passes : BlankIteration(p) => emitted_tokens'[p] = emitted_tokens[p]]_vars

\* C20 amended: an iteration whose token is blank does not increment the
\* per-frame counter; it always advances the cursor, and with that resets
\* the counter to 0.
C20_BlankResetsCounter ==
    [][\A p \in Passes :
          BlankIteration(p) =>
              /\ emitted_tokens'[p] <= emitted_tokens[p]
              /\ emitted_tokens'[p] = 0
              /\ t'[p] > t[p]]_vars

\* C20 witness: a blank with no duration step arrived on a frame that had
\* emitted, and the counter is back at 0.
C20_Witness ==
    /\ n_debug_frames[P1] >= 2
    /\ frame_debug[P1].is_blank /\ frame_debug[P1].step = 0
    /\ CountAt(timestamps[P1], frame_debug[P1].t) >= 1
    /\ t[P1] = frame_debug[P1].t + 1
    /\ emitted_tokens[P1] = 0

\* C21: without a duration head every iteration has step 0: the cursor moves
\* only from the frame just scored to the next one, and exactly when the
\* token was blank or the frame has emitted maxPerFrame tokens; so no frame
\* is passed unscored, and the pass ends with the cursor at exactly T.
C21_NoDurationHead ==
    num_durations = 0 =>
        \A p \in Passes :
            /\ n_debug_frames[p] = 0 => t[p] = 0
            /\ n_debug_frames[p] >= 1 =>
                  /\ frame_debug[p].step = 0
                  /\ t[p] \in {frame_debug[p].t, frame_debug[p].t + 1}
                  /\ t[p] = frame_debug[p].t + 1 <=>
                        \/ frame_debug[p].is_blank
                        \/ CountAt(timestamps[p], frame_debug[p].t) >= max_tokens_per_step
            /\ t[p] <= encodings_len
            /\ pc[p] = "done" => t[p] = encodings_len

\* C21 witness: a pass without duration head has finished over two frames,
\* one left on the cap and one on a blank.
C21_Witness ==
    /\ num_durations = 0
    /\ pc[P1] = "done" /\ encodings_len >= 2 /\ t[P1] = encodings_len
    /\ max_tokens_per_step >= 2
    /\ CountAt(timestamps[P1], 0) = max_tokens_per_step
    /\ frame_debug[P1].is_blank /\ frame_debug[P1].t = encodings_len - 1

\* Scoring calls made on the frame of the last iteration: its emissions, and
\* the blank that ended it if there was one.
CallsOnLastFrame(p) ==
    CountAt(timestamps[p], frame_debug[p].t) + (IF frame_debug[p].is_blank THEN 1 ELSE 0)

\* C22: a pass makes at most T * maxPerFrame scoring calls, and at most
\* maxPerFrame of them at any one cursor position.
C22_CallsWithinTTimesCap ==
    \A p \in Passes :
        /\ n_debug_frames[p] <= encodings_len * max_tokens_per_step
        /\ n_debug_frames[p] >= 1 => CallsOnLastFrame(p) <= max_tokens_per_step

\* C22 witness: a finished pass that made maxPerFrame calls on every frame,
\* the last of them a blank that came one short of the cap.
C22_Witness ==
    /\ pc[P1] = "done" /\ encodings_len >= 1 /\ max_tokens_per_step >= 2
    /\ n_debug_frames[P1] = encodings_len * max_tokens_per_step
    /\ frame_debug[P1].is_blank
    /\ CallsOnLastFrame(P1) = max_tokens_per_step

\* C23: the selected token is an index of the maximum token score and the
\* selected step an index of the maximum duration score, and no lower index
\* holds the same score: a tie, also one between blank and a non-blank
\* token, goes to the lowest index.
C23_ArgMaxLowestIndex ==
    \A p \in Passes :
        n_debug_frames[p] >= 1 =>
            LET o   == logits[p]
                tok == frame_debug[p].token
                stp == frame_debug[p].step
            IN  /\ tok \in 0 .. (vocab_size - 1)
                /\ \A j \in 0 .. (vocab_size - 1) :
                      o[j] < o[tok] \/ (o[j] = o[tok] /\ j >= tok)
                /\ num_durations = 0 => stp = 0
                /\ num_durations > 0 =>
                      /\ stp \in 0 .. (num_durations - 1)
                      /\ \A j \in 0 .. (num_durations - 1) :
                            \/ o[vocab_size + j] < o[vocab_size + stp]
                            \/ (o[vocab_size + j] = o[vocab_size + stp] /\ j >= stp)

\* C23 witness: blank and a lower non-blank index tie for the maximum token
\* score and the non-blank one is selected, while a step above 0 wins a tie
\* against a higher step.
C23_Witness ==
    /\ n_debug_frames[P1] >= 1
    /\ ~frame_debug[P1].is_blank
    /\ frame_debug[P1].token < blank_idx
    /\ logits[P1][blank_idx] = logits[P1][frame_debug[P1].token]
    /\ frame_debug[P1].step >= 1
    /\ frame_debug[P1].step < num_durations - 1
    /\ logits[P1][vocab_size + frame_debug[P1].step] = logits[P1][vocab_size + num_durations - 1]

\* C24: the previous-token input of a scoring call is the blank index while
\* no token has been accepted, and from then on the most recently accepted
\* token: an iteration that returns blank leaves it as it was, whether or not
\* the cursor moves, and one that returns a non-blank token makes that token
\* the next input.
C24_PreviousTokenInput ==
    /\ \A p \in Passes : n_debug_frames[p] = 0 => Targets(p) = blank_idx
    /\ [][\A p \in Passes :
            Iterated(p) =>
                Targets(p)' = IF frame_debug'[p].is_blank THEN Targets(p)
                                                          ELSE frame_debug'[p].token]_vars

\* C24 witness: a frame emitted a token and then returned blank, the cursor
\* moved on, and the call now due on the new frame has that token as its
\* previous-token input.
C24_Witness ==
    /\ pc[P1] = "loop" /\ t[P1] < encodings_len
    /\ frame_debug[P1].is_blank
    /\ Len(tokens[P1]) >= 1
    /\ timestamps[P1][Len(timestamps[P1])] = frame_debug[P1].t
    /\ frame_debug[P1].t < t[P1]
    /\ Targets(P1) = tokens[P1][Len(tokens[P1])] /\ Targets(P1) # blank_idx

\* The characters of str are all spaces.
AllSpaces(str) == \A k \in 1 .. Len(str) : str[k] = " "

\* Total length of the first i strings of strs.
RECURSIVE LenSum(_, _)
LenSum(strs, i) == IF i = 0 THEN 0 ELSE LenSum(strs, i - 1) + Len(strs[i])

\* C25: the returned token strings are the vocabulary symbols of the tokens,
\* one per token and in emission order, with no whitespace marker left in
\* them; the returned text is their concatenation less its leading and
\* trailing spaces.
C25_ResultAssembly ==
    \A p \in Passes :
        pc[p] = "done" =>
            LET strs == result[p].token_strings
                full == Join(strs)
                text == result[p].text
            IN  /\ Len(strs) = Len(result[p].tokens)
                /\ \A i \in 1 .. Len(strs) :
                      /\ strs[i] = vocab[result[p].tokens[i]]
                      /\ \A k \in 1 .. Len(strs[i]) : strs[i][k] # "U+2581"
                /\ Len(full) = LenSum(strs, Len(strs))
                /\ \A i \in 1 .. Len(strs) :
                      SubSeq(full, LenSum(strs, i - 1) + 1, LenSum(strs, i)) = strs[i]
                /\ \E a \in 0 .. Len(full) :
                      /\ AllSpaces(SubSeq(full, 1, a))
                      /\ text = SubSeq(full, a + 1, a + Len(text))
                      /\ AllSpaces(SubSeq(full, a + Len(text) + 1, Len(full)))
                /\ Len(text) > 0 => (text[1] # " " /\ text[Len(text)] # " ")

\* C25 witness: a returned text of at least one character whose two or more
\* token strings, concatenated, begin and end with a space.
C25_Witness ==
    /\ pc[P1] = "done"
    /\ Len(result[P1].tokens) >= 2
    /\ Len(result[P1].text) >= 1
    /\ LET full == Join(result[P1].token_strings)
       IN  full[1] = " " /\ full[Len(full)] = " "

\* C26: at the start of every loop iteration the per-frame counter lies in
\* 0 .. maxPerFrame - 1 and equals the number of output entries stamped with
\* the current cursor.
C26_CounterInvariant ==
    \A p \in Passes :
        (pc[p] = "loop" /\ LoopCond(p)) =>
            /\ 0 <= emitted_tokens[p]
            /\ emitted_tokens[p] < max_tokens_per_step
            /\ emitted_tokens[p] = CountAt(timestamps[p], t[p])

\* C26 witness: an iteration is about to start one emission short of the
\* cap, on a frame that is not the first to have emitted.
C26_Witness ==
    /\ pc[P1] = "loop" /\ t[P1] < encodings_len
    /\ emitted_tokens[P1] >= 1
    /\ emitted_tokens[P1] = max_tokens_per_step - 1
    /\ CountAt(timestamps[P1], t[P1]) = emitted_tokens[P1]
    /\ Len(timestamps[P1]) > emitted_tokens[P1]

\* C27: for every frame the output holds at most maxPerFrame entries stamped
\* with it, and entries with the same timestamp are contiguous.
C27_PerFrameEntries ==
    \A p \in Passes :
        /\ \A f \in 0 .. (encodings_len - 1) :
              CountAt(timestamps[p], f) <= max_tokens_per_step
        /\ \A i \in 1 .. Len(timestamps[p]), k \in 1 .. Len(timestamps[p]) :
              (i < k /\ timestamps[p][i] = timestamps[p][k]) =>
                  \A j \in i .. k : timestamps[p][j] = timestamps[p][i]

\* C27 witness: two frames have each emitted maxPerFrame entries, two or
\* more, the second block following the first.
C27_Witness ==
    /\ max_tokens_per_step >= 2
    /\ Len(timestamps[P1]) = 2 * max_tokens_per_step
    /\ CountAt(timestamps[P1], timestamps[P1][1]) = max_tokens_per_step
    /\ CountAt(timestamps[P1], timestamps[P1][Len(timestamps[P1])]) = max_tokens_per_step
    /\ timestamps[P1][1] # timestamps[P1][Len(timestamps[P1])]

\* The largest duration step the joint network can return.
MaxStep == IF num_durations > 0 THEN num_durations - 1 ELSE 0

\* C28: for T >= 1 the cursor of a finished pass satisfies
\* T <= t <= (T - 1) + max(1, S), S the largest step the scoring function can
\* return; the encoder_frames it reports is T, not the cursor.
C28_OvershootBounded ==
    \A p \in Passes :
        (pc[p] = "done" /\ encodings_len >= 1) =>
            /\ encodings_len <= t[p]
            /\ t[p] <= (encodings_len - 1) + (IF MaxStep > 1 THEN MaxStep ELSE 1)
            /\ result[p].encoder_frames = encodings_len

\* C28 witness: a finished pass whose last call, on the last frame, jumped
\* by the largest step, two or more, and which reports T frames.
C28_Witness ==
    /\ pc[P1] = "done" /\ encodings_len >= 2
    /\ MaxStep >= 2
    /\ t[P1] = (encodings_len - 1) + MaxStep
    /\ result[P1].encoder_frames = encodings_len
    /\ result[P1].encoder_frames < t[P1]

\* C29: the token list and the timestamp list have the same length and the
\* blank index is never in the token list; every scoring call adds one debug
\* record, whose state_updated is true exactly when the token is not blank,
\* and adds one entry to the lists exactly in that case, so the entries are
\* as many as the calls so far that returned a non-blank token.
C29_ListsAndDebugRecords ==
    /\ [](\A p \in Passes :
            /\ Len(tokens[p]) = Len(timestamps[p])
            /\ \A i \in 1 .. Len(tokens[p]) : tokens[p][i] # blank_idx
            /\ Len(tokens[p]) <= n_debug_frames[p]
            /\ n_debug_frames[p] = 0 => Len(tokens[p]) = 0)
    /\ [][\A p \in Passes :
            n_debug_frames'[p] # n_debug_frames[p] =>
                /\ n_debug_frames'[p] = n_debug_frames[p] + 1
                /\ frame_debug'[p].is_blank <=> frame_debug'[p].token = blank_idx
                /\ frame_debug'[p].state_updated <=> frame_debug'[p].token # blank_idx
                /\ Len(tokens'[p]) = Len(tokens[p]) + (IF frame_debug'[p].state_updated THEN 1 ELSE 0)
                /\ \A i \in 1 .. Len(tokens[p]) : tokens'[p][i] = tokens[p][i]]_vars

\* C29 witness: three calls have been made, one of them blank and the last
\* one not, and the lists hold two entries.
C29_Witness ==
    /\ n_debug_frames[P1] >= 3
    /\ Len(tokens[P1]) = n_debug_frames[P1] - 1
    /\ Len(timestamps[P1]) = Len(tokens[P1])
    /\ frame_debug[P1].state_updated

\* C30: an iteration that returns blank moves the cursor strictly forward, by
\* step if step > 0 and by exactly 1 otherwise, so a frame that has produced
\* a blank is not scored again; the cursor stands on the frame just scored
\* only after a non-blank emission with step 0 that left the frame below the
\* cap.
C30_BlankMovesForward ==
    \A p \in Passes :
        n_debug_frames[p] >= 1 =>
            /\ t[p] >= frame_debug[p].t
            /\ frame_debug[p].is_blank =>
                  t[p] = frame_debug[p].t +
                            (IF frame_debug[p].step > 0 THEN frame_debug[p].step ELSE 1)
            /\ t[p] = frame_debug[p].t =>
                  /\ ~frame_debug[p].is_blank
                  /\ frame_debug[p].step = 0
                  /\ CountAt(timestamps[p], frame_debug[p].t) < max_tokens_per_step

\* C30 witness: a frame that had emitted returned a blank with a step of two
\* or more, and the cursor stands that many frames on.
C30_Witness ==
    /\ n_debug_frames[P1] >= 2
    /\ frame_debug[P1].is_blank /\ frame_debug[P1].step >= 2
    /\ CountAt(timestamps[P1], frame_debug[P1].t) >= 1
    /\ t[P1] = frame_debug[P1].t + frame_debug[P1].step

====
